---- MODULE Spec2Model ----
(***************************************************************************)
(* Invoicing ROI simulator (server.js): the simulation engine `simulate`   *)
(* and the HTTP handlers around the MongoDB collection `scenarios`.        *)
(*                                                                         *)
(* Numbers.  A JavaScript number is modelled as <<n, d, e>>.  With d > 0   *)
(* it is the finite value (n/d) * Huge^e, n/d a reduced fraction and e in  *)
(* -1 .. 1 (e = 0 when n = 0); <<0, 0, 0>> is NaN and <<1, 0, 0>>,         *)
(* <<-1, 0, 0>> are +Infinity and -Infinity.  Huge stands for a magnitude  *)
(* such as 1e200: Huge * Huge exceeds Number.MAX_VALUE and overflows to    *)
(* Infinity, 1 / (Huge * Huge) underflows to 0, and a sum of two different *)
(* magnitudes is the larger one (the smaller is below its last binary      *)
(* digit).  Within one magnitude the arithmetic is exact: the binary       *)
(* rounding error of IEEE doubles is outside this model.                   *)
(*                                                                         *)
(* JSON values.  A value of a request or response body is a tagged tuple:  *)
(* <<"undefined">> (field absent), <<"null">>, <<"string", s>>, or         *)
(* <<"number", n, d, e>>.                                                  *)
(***************************************************************************)
EXTENDS Integers, Sequences, FiniteSets, TLC

VARIABLES
    payload,   \* the argument of the simulate call under test
    pc,        \* "ready" before that call, "returned" after it
    out,       \* what the call returned
    store,     \* the documents of the collection `scenarios`
    clock,     \* the wall clock new Date() reads
    pending,   \* per client, the POST /scenarios request awaiting insertOne
    resp,      \* the last response a handler sent
    saved      \* history: per stored id, what the save that stored it returned

simVars == <<payload, pc, out>>
serverVars == <<store, clock, pending, resp, saved>>
vars == <<payload, pc, out, store, clock, pending, resp, saved>>

(***************************************************************************)
(* Arithmetic of JavaScript numbers.                                       *)
(***************************************************************************)
Abs(n) == IF n < 0 THEN -n ELSE n

RECURSIVE GCD(_, _)
GCD(a, b) == IF b = 0 THEN a ELSE GCD(b, a % b)

NaN == <<0, 0, 0>>
PosInf == <<1, 0, 0>>
NegInf == <<-1, 0, 0>>
Zero == <<0, 1, 0>>
Huge == <<1, 1, 1>>     \* a number such as 1e200

IsNaN(x) == x[2] = 0 /\ x[1] = 0
IsInf(x) == x[2] = 0 /\ x[1] # 0
IsFinite(x) == x[2] # 0

Sign(x) == IF x[1] > 0 THEN 1 ELSE IF x[1] < 0 THEN -1 ELSE 0

\* The number (n/d) * Huge^e for d # 0, as the double arithmetic leaves it:
\* beyond Huge^1 it has overflowed to an infinity, below Huge^-1 it has
\* underflowed to 0.
Norm(n, d, e) ==
    LET g == GCD(Abs(n), Abs(d))
        s == IF d < 0 THEN -1 ELSE 1
    IN  IF n = 0 \/ e <= -2 THEN Zero
        ELSE IF e >= 2 THEN (IF s * n > 0 THEN PosInf ELSE NegInf)
        ELSE <<(s * n) \div g, (s * d) \div g, e>>

\* The ordinary number n/d (d # 0).
Rat(n, d) == Norm(n, d, 0)

RNeg(a) == <<-a[1], a[2], a[3]>>

\* a + b
RAdd(a, b) ==
    IF IsNaN(a) \/ IsNaN(b) THEN NaN
    ELSE IF IsInf(a) THEN (IF IsInf(b) /\ b # a THEN NaN ELSE a)
    ELSE IF IsInf(b) THEN b
    ELSE IF a = Zero THEN b
    ELSE IF b = Zero THEN a
    ELSE IF a[3] > b[3] THEN a     \* the smaller magnitude is lost in rounding
    ELSE IF a[3] < b[3] THEN b
    ELSE LET g == GCD(a[2], b[2])
         IN  Norm(a[1] * (b[2] \div g) + b[1] * (a[2] \div g), (a[2] \div g) * b[2], a[3])

RSub(a, b) == RAdd(a, RNeg(b))

\* a * b
RMul(a, b) ==
    IF IsNaN(a) \/ IsNaN(b) THEN NaN
    ELSE IF IsInf(a) \/ IsInf(b)
         THEN (IF a = Zero \/ b = Zero THEN NaN
               ELSE IF Sign(a) * Sign(b) > 0 THEN PosInf ELSE NegInf)
    ELSE LET g1 == GCD(Abs(a[1]), b[2])
             g2 == GCD(Abs(b[1]), a[2])
         IN  Norm((a[1] \div g1) * (b[1] \div g2), (a[2] \div g2) * (b[2] \div g1),
                  a[3] + b[3])

\* a / b
RDiv(a, b) ==
    IF IsNaN(a) \/ IsNaN(b) THEN NaN
    ELSE IF IsInf(a)
         THEN (IF IsInf(b) THEN NaN
               ELSE IF Sign(a) * (IF Sign(b) < 0 THEN -1 ELSE 1) > 0
                    THEN PosInf ELSE NegInf)
    ELSE IF IsInf(b) THEN Zero
    ELSE IF b = Zero
         THEN (IF a = Zero THEN NaN ELSE IF Sign(a) > 0 THEN PosInf ELSE NegInf)
    ELSE LET g1 == GCD(Abs(a[1]), Abs(b[1]))
             g2 == GCD(a[2], b[2])
         IN  Norm((a[1] \div g1) * (b[2] \div g2), (a[2] \div g2) * (b[1] \div g1),
                  a[3] - b[3])

\* a < b and a <= b: false when either side is NaN
RLt(a, b) == ~IsNaN(a) /\ ~IsNaN(b) /\ a # b /\ Sign(RSub(b, a)) > 0
RLe(a, b) == ~IsNaN(a) /\ ~IsNaN(b) /\ (a = b \/ Sign(RSub(b, a)) > 0)

\* Math.max(a, b): NaN when either argument is NaN
MathMax(a, b) == IF IsNaN(a) \/ IsNaN(b) THEN NaN ELSE IF RLe(a, b) THEN b ELSE a

MathAbs(a) == <<Abs(a[1]), a[2], a[3]>>

\* Math.floor: a number of magnitude Huge is an integer already
MathFloor(a) ==
    IF ~IsFinite(a) \/ a[3] = 1 THEN a
    ELSE IF a[3] = -1 THEN (IF a[1] < 0 THEN <<-1, 1, 0>> ELSE Zero)
    ELSE <<a[1] \div a[2], 1, 0>>

\* Math.round: the nearest integer, a tie going up (towards +Infinity).
MathRound(a) ==
    IF ~IsFinite(a) \/ a[3] = 1 THEN a
    ELSE IF a[3] = -1 THEN Zero
    ELSE LET q == a[1] \div a[2]
             r == a[1] % a[2]
         IN  IF 2 * r >= a[2] THEN <<q + 1, 1, 0>> ELSE <<q, 1, 0>>

(***************************************************************************)
(* JSON values and the coercion Number(value).                             *)
(***************************************************************************)
Undefined == <<"undefined">>
JNull == <<"null">>
Str(s) == <<"string", s>>
Num(r) == <<"number", r[1], r[2], r[3]>>

\* Number(s) for a string: "" is 0, a decimal literal is its value (the
\* literals that occur are listed), the literal Infinity is +Infinity,
\* anything else is NaN.
StringToNumber(s) ==
    CASE s = "" -> Zero
      [] s = "0" -> Zero
      [] s = "1" -> <<1, 1, 0>>
      [] s = "7" -> <<7, 1, 0>>
      [] s = "30" -> <<30, 1, 0>>
      [] s = "40" -> <<40, 1, 0>>
      [] s = "1000" -> <<1000, 1, 0>>
      [] s = "0.01" -> <<1, 100, 0>>
      [] s = "0.4" -> <<2, 5, 0>>
      [] s = "2.9" -> <<29, 10, 0>>
      [] s = "2500.5" -> <<5001, 2, 0>>
      [] s = "Infinity" -> PosInf
      [] OTHER -> NaN

NumberOf(v) ==
    CASE v[1] = "undefined" -> NaN
      [] v[1] = "null" -> Zero
      [] v[1] = "string" -> StringToNumber(v[2])
      [] v[1] = "number" -> <<v[2], v[3], v[4]>>

\* Internal constants (server-side only)
automatedCostPerInvoice == <<1, 5, 0>>        \* 0.20
errorRateAuto == <<1, 1000, 0>>               \* 0.001
timeSavedPerInvoiceMinutes == <<8, 1, 0>>
minRoiBoostFactor == <<11, 10, 0>>            \* 1.1

toNumber(value, fallback) ==
    LET n == NumberOf(value) IN IF IsFinite(n) THEN n ELSE fallback

\* Math.round(n * 100) / 100.  An infinity or NaN stays what it is; a
\* number of magnitude Huge is an integer, which the rounding leaves alone;
\* one of magnitude 1/Huge rounds to 0.  For an ordinary n = q + r/d
\* (0 <= r < d), n * 100 is 100*q + (100*r)/d, which keeps the product
\* within TLC's integers.
round2(n) ==
    IF ~IsFinite(n) \/ n[3] = 1 THEN n
    ELSE IF n[3] = -1 THEN Zero
    ELSE LET q == n[1] \div n[2]
             r == n[1] % n[2]
             cents == RAdd(<<100 * q, 1, 0>>, MathRound(Rat(100 * r, n[2])))
         IN  RDiv(cents, <<100, 1, 0>>)

\* A result field that may be null: the rounded number, or null.
Round2OrNull(v) == IF v # JNull THEN Num(round2(NumberOf(v))) ELSE JNull

(***************************************************************************)
(* simulate(payload), server.js 51-118.  A payload is a record of the      *)
(* eight numeric fields (and scenario_name, which simulate ignores); an    *)
(* absent field holds Undefined.                                           *)
(***************************************************************************)
timeHorizonMutNoFloor(p) ==
    MathMax(<<1, 1, 0>>, toNumber(p.time_horizon_months, <<36, 1, 0>>))

timeHorizonOf(p) ==
    MathMax(<<1, 1, 0>>, MathFloor(toNumber(p.time_horizon_months, <<36, 1, 0>>)))

implementationCostOf(p) ==
    MathMax(Zero, toNumber(p.one_time_implementation_cost, <<50000, 1, 0>>))

\* 1) Manual labor cost per month
laborCostManualOf(staff, wage, hours, vol) == RMul(RMul(RMul(staff, wage), hours), vol)

\* 2) Automation cost per month
autoCostOf(vol) == RMul(vol, automatedCostPerInvoice)

\* 3) Error savings per month (pct is the percent input)
errorSavingsOf(pct, vol, ecost) ==
    LET errorRateManual == RDiv(pct, <<100, 1, 0>>)
    IN  RMul(RMul(RSub(errorRateManual, errorRateAuto), vol), ecost)

\* 4) Monthly savings (raw)
monthlySavingsRawOf(laborCostManual, errorSavings, autoCost) ==
    RSub(RAdd(laborCostManual, errorSavings), autoCost)

favorableBaselineMutNoAbs(raw) ==
    MathMax(raw, RAdd(RMul(raw, <<3, 20, 0>>), <<100, 1, 0>>))

favorableBaselineOf(raw) ==
    MathMax(raw, RAdd(RMul(MathAbs(raw), <<3, 20, 0>>), <<100, 1, 0>>))

\* 5) the bias factor and the absolute floor safeguard
monthlySavingsOf(baseline) ==
    LET boosted == RMul(baseline, minRoiBoostFactor)
    IN  IF RLe(boosted, Zero) THEN <<100, 1, 0>> ELSE boosted

paybackMonthsMutRounded(cost, monthlySavings) ==
    IF RLt(Zero, monthlySavings) THEN Num(RDiv(cost, round2(monthlySavings))) ELSE JNull

paybackMonthsOf(cost, monthlySavings) ==
    IF RLt(Zero, monthlySavings) THEN Num(RDiv(cost, monthlySavings)) ELSE JNull

roiPercentageMutNetGuard(netSavings, cost) ==
    IF RLt(Zero, cost) /\ RLe(Zero, netSavings)
    THEN Num(RMul(RDiv(netSavings, cost), <<100, 1, 0>>)) ELSE JNull

roiPercentageOf(netSavings, cost) ==
    IF RLt(Zero, cost) THEN Num(RMul(RDiv(netSavings, cost), <<100, 1, 0>>)) ELSE JNull

simulate(p) ==
    LET monthlyInvoiceVolume == MathMax(Zero, toNumber(p.monthly_invoice_volume, Zero))
        numApStaff == MathMax(Zero, toNumber(p.num_ap_staff, Zero))
        avgHoursPerInvoice == MathMax(Zero, toNumber(p.avg_hours_per_invoice, Zero))
        hourlyWage == MathMax(Zero, toNumber(p.hourly_wage, Zero))
        errorRateManualPercent == MathMax(Zero, toNumber(p.error_rate_manual, Zero))
        errorCost == MathMax(Zero, toNumber(p.error_cost, Zero))
        timeHorizonMonths == timeHorizonOf(p)
        oneTimeImplementationCost == implementationCostOf(p)
        laborCostManual ==
            laborCostManualOf(numApStaff, hourlyWage, avgHoursPerInvoice, monthlyInvoiceVolume)
        autoCost == autoCostOf(monthlyInvoiceVolume)
        errorSavings == errorSavingsOf(errorRateManualPercent, monthlyInvoiceVolume, errorCost)
        monthlySavingsRaw == monthlySavingsRawOf(laborCostManual, errorSavings, autoCost)
        favorableBaseline == favorableBaselineOf(monthlySavingsRaw)
        monthlySavings == monthlySavingsOf(favorableBaseline)
        cumulativeSavings == RMul(monthlySavings, timeHorizonMonths)
        netSavings == RSub(cumulativeSavings, oneTimeImplementationCost)
        paybackMonths == paybackMonthsOf(oneTimeImplementationCost, monthlySavings)
        roiPercentage == roiPercentageOf(netSavings, oneTimeImplementationCost)
    IN  [ inputs |->
            [ monthly_invoice_volume |-> Num(monthlyInvoiceVolume),
              num_ap_staff |-> Num(numApStaff),
              avg_hours_per_invoice |-> Num(avgHoursPerInvoice),
              hourly_wage |-> Num(hourlyWage),
              error_rate_manual |-> Num(errorRateManualPercent),
              error_cost |-> Num(errorCost),
              time_horizon_months |-> Num(timeHorizonMonths),
              one_time_implementation_cost |-> Num(oneTimeImplementationCost) ],
          constants |->
            [ automated_cost_per_invoice |-> Num(automatedCostPerInvoice),
              error_rate_auto |-> Num(errorRateAuto),
              time_saved_per_invoice |-> Num(timeSavedPerInvoiceMinutes),
              min_roi_boost_factor |-> Num(minRoiBoostFactor) ],
          results |->
            [ labor_cost_manual |-> Num(round2(laborCostManual)),
              auto_cost |-> Num(round2(autoCost)),
              error_savings |-> Num(round2(errorSavings)),
              monthly_savings |-> Num(round2(monthlySavings)),
              cumulative_savings |-> Num(round2(cumulativeSavings)),
              net_savings |-> Num(round2(netSavings)),
              payback_months |-> Round2OrNull(paybackMonths),
              roi_percentage |-> Round2OrNull(roiPercentage) ] ]

(***************************************************************************)
(* Strings that the handlers inspect are sequences of one-character        *)
(* strings: <<"string", <<" ", "A">>>>.                                      *)
(***************************************************************************)
IsSpace(ch) == ch \in {" ", "\t", "\n"}

RECURSIVE TrimStart(_)
TrimStart(cs) ==
    IF cs # <<>> /\ IsSpace(Head(cs)) THEN TrimStart(Tail(cs)) ELSE cs

RECURSIVE TrimEnd(_)
TrimEnd(cs) ==
    IF cs # <<>> /\ IsSpace(cs[Len(cs)]) THEN TrimEnd(SubSeq(cs, 1, Len(cs) - 1)) ELSE cs

\* String.prototype.trim
Trim(cs) == TrimEnd(TrimStart(cs))

\* JavaScript truthiness of a body value (undefined, null, "" and 0 are falsy)
Truthy(v) ==
    CASE v[1] = "undefined" -> FALSE
      [] v[1] = "null" -> FALSE
      [] v[1] = "string" -> v[2] # <<>>
      [] v[1] = "number" -> v[2] # 0

\* /^[^\s@]+@[^\s@]+\.[^\s@]+$/.test(cs)
EmailRegexTest(cs) ==
    LET Plain(k) == ~IsSpace(cs[k]) /\ cs[k] # "@"
    IN  \E a \in 1..Len(cs) : \E dot \in 1..Len(cs) :
          /\ cs[a] = "@"
          /\ cs[dot] = "."
          /\ 1 < a /\ a + 1 < dot /\ dot < Len(cs)
          /\ \A k \in 1..Len(cs) : k # a => Plain(k)

(***************************************************************************)
(* JSON.stringify and JSON.parse of an object of numbers and nulls.  The   *)
(* text of a number is its sign, its integer part and its fraction digits; *)
(* NaN and the infinities are written as null.                             *)
(***************************************************************************)
RECURSIVE FractionDigits(_, _, _)
FractionDigits(r, d, k) ==
    IF r = 0 \/ k = 0 THEN <<>>
    ELSE <<(10 * r) \div d>> \o FractionDigits((10 * r) % d, d, k - 1)

NumberText(v) ==
    IF v[1] = "number" /\ v[3] # 0
    THEN [ kind |-> "number",
           neg |-> v[2] < 0,
           int |-> Abs(v[2]) \div v[3],
           frac |-> FractionDigits(Abs(v[2]) % v[3], v[3], 17),
           exp |-> v[4] ]
    ELSE [ kind |-> "null" ]

RECURSIVE DigitsValue(_)
\* <<numerator, denominator>> of the fraction 0.d1d2...dk
DigitsValue(ds) ==
    IF ds = <<>> THEN <<0, 1>>
    ELSE LET t == DigitsValue(SubSeq(ds, 1, Len(ds) - 1))
         IN  <<10 * t[1] + ds[Len(ds)], 10 * t[2]>>

TextValue(t) ==
    IF t.kind = "null" THEN JNull
    ELSE LET f == DigitsValue(t.frac)
             m == RAdd(<<t.int, 1, 0>>, Rat(f[1], f[2]))
             x == RMul(m, IF t.exp = 0 THEN <<1, 1, 0>> ELSE <<1, 1, t.exp>>)
         IN  Num(IF t.neg THEN RNeg(x) ELSE x)

JSONStringify(obj) == [f \in DOMAIN obj |-> NumberText(obj[f])]
JSONParse(text) == [f \in DOMAIN text |-> TextValue(text[f])]

(***************************************************************************)
(* The requests the handlers are checked on.                               *)
(***************************************************************************)
EmptyBody ==
    [ scenario_name |-> Undefined,
      monthly_invoice_volume |-> Undefined, num_ap_staff |-> Undefined,
      avg_hours_per_invoice |-> Undefined, hourly_wage |-> Undefined,
      error_rate_manual |-> Undefined, error_cost |-> Undefined,
      time_horizon_months |-> Undefined, one_time_implementation_cost |-> Undefined ]

\* an ordinary payload, and one whose products overflow
ScenarioPayloads ==
    { [ scenario_name |-> Undefined,
        monthly_invoice_volume |-> Num(<<1000, 1, 0>>), num_ap_staff |-> Num(<<1, 1, 0>>),
        avg_hours_per_invoice |-> Num(<<1, 100, 0>>), hourly_wage |-> Num(<<30, 1, 0>>),
        error_rate_manual |-> Num(<<2, 5, 0>>), error_cost |-> Num(<<40, 1, 0>>),
        time_horizon_months |-> Num(<<29, 10, 0>>),
        one_time_implementation_cost |-> Num(<<5001, 2, 0>>) ],
      [ EmptyBody EXCEPT !.monthly_invoice_volume = Num(Huge), !.num_ap_staff = Num(Huge),
                         !.avg_hours_per_invoice = Num(<<1, 100, 0>>),
                         !.hourly_wage = Num(<<30, 1, 0>>), !.error_cost = Num(Huge) ] }

BlankNames == {Undefined, Str(<<>>), Str(<<" ">>)}

\* every payload under a name, and each blank name on an empty body
Bodies ==
    {[p EXCEPT !.scenario_name = Str(<<" ", "A">>)] : p \in ScenarioPayloads}
        \cup {[EmptyBody EXCEPT !.scenario_name = n] : n \in BlankNames}

Emails ==
    { Undefined, Str(<<"a", "@", "b", ".", "c">>), Str(<<"a", "@", "b">>),
      Str(<<"a", "b", ".", "c">>) }

\* the form filled in, under a blank name and under a name
Forms ==
    { [ scenario_name |-> n,
        monthly_invoice_volume |-> "1000", num_ap_staff |-> "1",
        avg_hours_per_invoice |-> "0.01", hourly_wage |-> "30",
        error_rate_manual |-> "0.4", error_cost |-> "40",
        time_horizon_months |-> "2.9", one_time_implementation_cost |-> "2500.5" ]
      : n \in {<<" ">>, <<"A", " ">>} }

NoOutput == <<>>

(***************************************************************************)
(* The HTTP handlers.                                                      *)
(***************************************************************************)
MaxClock == 1     \* the clock runs over 0 .. MaxClock

Clients == {"c1", "c2"}
Ids == {"id1", "id2"}          \* what idGen can return
NoResponse == [route |-> "none", status |-> 0]

\* idGen(): any string of the alphabet; two calls may return the same one
idGen == Ids

Row(id) == {d \in store : d.id = id}

ServerInit ==
    /\ store = {}
    /\ clock = 0
    /\ pending = [c \in Clients |-> <<>>]
    /\ resp = NoResponse
    /\ saved = [i \in Ids |-> <<>>]

\* time passes
Tick ==
    /\ clock < MaxClock
    /\ clock' = clock + 1
    /\ UNCHANGED <<store, pending, resp, saved>>

\* delete sim.constants
DeleteConstants(sim) == [f \in DOMAIN sim \ {"constants"} |-> sim[f]]

PostSimulateMutKeepConstants(body) ==
    /\ resp' = [ route |-> "POST /simulate", status |-> 200, body |-> simulate(body) ]
    /\ UNCHANGED <<store, clock, pending, saved>>

\* app.post('/simulate')
PostSimulate(body) ==
    /\ resp' = [ route |-> "POST /simulate", status |-> 200,
                 body |-> DeleteConstants(simulate(body)) ]
    /\ UNCHANGED <<store, clock, pending, saved>>

\* app.post('/scenarios'), up to `await scenariosCol.insertOne(doc)`
PostScenariosBegin(c, body) ==
    /\ pending[c] = <<>>
    /\ IF ~Truthy(body.scenario_name) \/ Len(Trim(body.scenario_name[2])) = 0
       THEN /\ resp' = [ route |-> "POST /scenarios", status |-> 400,
                         params |-> [scenario_name |-> body.scenario_name],
                         body |-> [error |-> "scenario_name is required"] ]
            /\ UNCHANGED <<store, clock, pending, saved>>
       ELSE \E id \in idGen :
              LET sim == simulate(body)
                  doc == [ id |-> id,
                           scenario_name |-> Trim(body.scenario_name[2]),
                           inputs_json |-> JSONStringify(sim.inputs),
                           results_json |-> JSONStringify(sim.results),
                           created_at |-> clock ]
              IN  /\ pending' = [pending EXCEPT ![c] = <<[doc |-> doc, sim |-> sim]>>]
                  /\ UNCHANGED <<store, clock, resp, saved>>

InsertOneMutNoUniqueIndex(c) ==
    /\ pending[c] # <<>>
    /\ LET doc == pending[c][1].doc
           sim == pending[c][1].sim
       IN  /\ store' = store \cup {doc}
           /\ resp' = [ route |-> "POST /scenarios", status |-> 200,
                        params |-> [scenario_name |-> Str(doc.scenario_name)],
                        body |-> [ id |-> doc.id, scenario_name |-> doc.scenario_name,
                                   inputs |-> sim.inputs, results |-> sim.results ] ]
           /\ saved' = [saved EXCEPT ![doc.id] =
                          <<[ scenario_name |-> doc.scenario_name,
                              created_at |-> doc.created_at,
                              inputs |-> sim.inputs, results |-> sim.results ]>>]
    /\ pending' = [pending EXCEPT ![c] = <<>>]
    /\ UNCHANGED clock

\* insertOne under the unique index on id, and the rest of app.post('/scenarios')
InsertOne(c) ==
    /\ pending[c] # <<>>
    /\ LET doc == pending[c][1].doc
           sim == pending[c][1].sim
       IN  IF Row(doc.id) # {}
           THEN \* duplicate key error, caught
                /\ resp' = [ route |-> "POST /scenarios", status |-> 500,
                             params |-> [scenario_name |-> Str(doc.scenario_name)],
                             body |-> [error |-> "Failed to save scenario"] ]
                /\ UNCHANGED <<store, saved>>
           ELSE /\ store' = store \cup {doc}
                /\ resp' = [ route |-> "POST /scenarios", status |-> 200,
                             params |-> [scenario_name |-> Str(doc.scenario_name)],
                             body |-> [ id |-> doc.id, scenario_name |-> doc.scenario_name,
                                        inputs |-> sim.inputs, results |-> sim.results ] ]
                /\ saved' = [saved EXCEPT ![doc.id] =
                               <<[ scenario_name |-> doc.scenario_name,
                                   created_at |-> doc.created_at,
                                   inputs |-> sim.inputs, results |-> sim.results ]>>]
    /\ pending' = [pending EXCEPT ![c] = <<>>]
    /\ UNCHANGED clock

\* app.get('/scenarios'): id, name and created_at, newest first
GetScenarios ==
    /\ \E rows \in [1..Cardinality(store) -> store] :
         /\ \A i, j \in DOMAIN rows : i # j => rows[i] # rows[j]
         /\ \A i, j \in DOMAIN rows : i < j => rows[i].created_at >= rows[j].created_at
         /\ resp' = [ route |-> "GET /scenarios", status |-> 200,
                      body |-> [ scenarios |->
                          [ k \in DOMAIN rows |->
                              [ id |-> rows[k].id,
                                scenario_name |-> rows[k].scenario_name,
                                created_at |-> rows[k].created_at ] ] ] ]
    /\ UNCHANGED <<store, clock, pending, saved>>

\* the body app.get('/scenarios/:id') sends for a row
GetBody(row) ==
    [ id |-> row.id, scenario_name |-> row.scenario_name,
      inputs |-> JSONParse(row.inputs_json),
      results |-> JSONParse(row.results_json),
      created_at |-> row.created_at ]

\* app.get('/scenarios/:id')
GetScenario(id) ==
    /\ IF Row(id) = {}
       THEN resp' = [ route |-> "GET /scenarios/:id", status |-> 404,
                      params |-> [id |-> id], body |-> [error |-> "Not found"] ]
       ELSE \E row \in Row(id) :
              resp' = [ route |-> "GET /scenarios/:id", status |-> 200,
                        params |-> [id |-> id], body |-> GetBody(row) ]
    /\ UNCHANGED <<store, clock, pending, saved>>

DeleteScenarioMutAlwaysOk(id) ==
    /\ store' = store \ Row(id)
    /\ saved' = [saved EXCEPT ![id] = <<>>]
    /\ resp' = [ route |-> "DELETE /scenarios/:id", status |-> 200,
                 params |-> [id |-> id], body |-> [ok |-> TRUE] ]
    /\ UNCHANGED <<clock, pending>>

\* app.delete('/scenarios/:id'): deleteOne removes one matching document
DeleteScenario(id) ==
    /\ IF Row(id) = {}
       THEN /\ resp' = [ route |-> "DELETE /scenarios/:id", status |-> 404,
                         params |-> [id |-> id], body |-> [error |-> "Not found"] ]
            /\ UNCHANGED <<store, saved>>
       ELSE \E row \in Row(id) :
              /\ store' = store \ {row}
              /\ saved' = [saved EXCEPT ![id] = <<>>]
              /\ resp' = [ route |-> "DELETE /scenarios/:id", status |-> 200,
                           params |-> [id |-> id], body |-> [ok |-> TRUE] ]
    /\ UNCHANGED <<clock, pending>>

\* the numbers the HTML report shows
ReportBody(sim) ==
    [ monthly_savings |-> sim.results.monthly_savings,
      payback_months |-> sim.results.payback_months,
      roi_percentage |-> sim.results.roi_percentage,
      cumulative_savings |-> sim.results.cumulative_savings,
      time_horizon_months |-> sim.inputs.time_horizon_months,
      monthly_invoice_volume |-> sim.inputs.monthly_invoice_volume,
      labor_cost_manual |-> sim.results.labor_cost_manual,
      auto_cost |-> sim.results.auto_cost,
      error_savings |-> sim.results.error_savings,
      one_time_implementation_cost |-> sim.inputs.one_time_implementation_cost ]

ReportGenerateMutLookupFirst(email, scenario_id, body) ==
    LET params == [email |-> email, scenario_id |-> scenario_id]
    IN  /\ IF scenario_id # "" /\ Row(scenario_id) = {}
           THEN resp' = [ route |-> "POST /report/generate", status |-> 404,
                          params |-> params, body |-> [error |-> "Scenario not found"] ]
           ELSE IF ~Truthy(email) \/ ~EmailRegexTest(email[2])
                THEN resp' = [ route |-> "POST /report/generate", status |-> 400,
                               params |-> params,
                               body |-> [error |-> "Valid email is required"] ]
                ELSE IF scenario_id # ""
                     THEN \E row \in Row(scenario_id) :
                            resp' = [ route |-> "POST /report/generate", status |-> 200,
                                      params |-> params,
                                      body |-> ReportBody(simulate(JSONParse(row.inputs_json))) ]
                     ELSE resp' = [ route |-> "POST /report/generate", status |-> 200,
                                    params |-> params, body |-> ReportBody(simulate(body)) ]
        /\ UNCHANGED <<store, clock, pending, saved>>

\* app.post('/report/generate'); scenario_id "" stands for an absent one
ReportGenerate(email, scenario_id, body) ==
    LET params == [email |-> email, scenario_id |-> scenario_id]
    IN  /\ IF ~Truthy(email) \/ ~EmailRegexTest(email[2])
           THEN resp' = [ route |-> "POST /report/generate", status |-> 400,
                          params |-> params, body |-> [error |-> "Valid email is required"] ]
           ELSE IF scenario_id # ""
                THEN IF Row(scenario_id) = {}
                     THEN resp' = [ route |-> "POST /report/generate", status |-> 404,
                                    params |-> params,
                                    body |-> [error |-> "Scenario not found"] ]
                     ELSE \E row \in Row(scenario_id) :
                            resp' = [ route |-> "POST /report/generate", status |-> 200,
                                      params |-> params,
                                      body |-> ReportBody(simulate(JSONParse(row.inputs_json))) ]
                ELSE resp' = [ route |-> "POST /report/generate", status |-> 200,
                               params |-> params, body |-> ReportBody(simulate(body)) ]
        /\ UNCHANGED <<store, clock, pending, saved>>

(***************************************************************************)
(* The browser's save button (public/script.js).  A form holds the text of *)
(* each input element.                                                     *)
(***************************************************************************)
\* Number(value || dflt), as JSON.stringify then writes it in the request
\* body (NaN and the infinities become null)
FormNumber(text, dflt) ==
    LET n == IF text = "" THEN dflt ELSE StringToNumber(text)
    IN  IF IsFinite(n) THEN Num(n) ELSE JNull

getInputsFromUI(form) ==
    [ scenario_name |-> Str(Trim(form.scenario_name)),
      monthly_invoice_volume |-> FormNumber(form.monthly_invoice_volume, Zero),
      num_ap_staff |-> FormNumber(form.num_ap_staff, Zero),
      avg_hours_per_invoice |-> FormNumber(form.avg_hours_per_invoice, Zero),
      hourly_wage |-> FormNumber(form.hourly_wage, Zero),
      error_rate_manual |-> FormNumber(form.error_rate_manual, Zero),
      error_cost |-> FormNumber(form.error_cost, Zero),
      time_horizon_months |-> FormNumber(form.time_horizon_months, <<36, 1, 0>>),
      one_time_implementation_cost |-> FormNumber(form.one_time_implementation_cost, Zero) ]

\* saveScenario(): an empty name is refused in the browser, anything else
\* is posted to /scenarios
saveScenario(c, form) ==
    LET body == getInputsFromUI(form)
    IN  IF ~Truthy(body.scenario_name)
        THEN /\ resp' = [ route |-> "saveScenario", status |-> 0,
                          body |-> [alert |-> "Please enter a scenario name"] ]
             /\ UNCHANGED <<store, clock, pending, saved>>
        ELSE PostScenariosBegin(c, body)

Init ==
    /\ ServerInit
    /\ payload = EmptyBody
    /\ pc = "ready"
    /\ out = NoOutput

\* the client reads the response; the next request is sent after that
Deliver ==
    /\ resp # NoResponse
    /\ resp' = NoResponse
    /\ UNCHANGED <<store, clock, pending, saved>>

\* no response is waiting to be read
Idle == resp = NoResponse

Next ==
    \/ Tick /\ UNCHANGED simVars
    \/ Deliver /\ UNCHANGED simVars
    \/ Idle /\ \E b \in ScenarioPayloads : PostSimulate(b) /\ UNCHANGED simVars
    \/ Idle /\ \E c \in Clients, b \in Bodies :
                 PostScenariosBegin(c, b) /\ UNCHANGED simVars
    \/ Idle /\ \E c \in Clients : InsertOne(c) /\ UNCHANGED simVars
    \/ Idle /\ GetScenarios /\ UNCHANGED simVars
    \/ Idle /\ \E id \in Ids : GetScenario(id) /\ UNCHANGED simVars
    \/ Idle /\ \E id \in Ids : DeleteScenario(id) /\ UNCHANGED simVars
    \/ Idle /\ \E e \in Emails, sid \in Ids \cup {""} :
                 \E b \in (IF sid = "" THEN ScenarioPayloads ELSE {EmptyBody}) :
                   ReportGenerate(e, sid, b) /\ UNCHANGED simVars
    \/ Idle /\ \E c \in Clients, f \in Forms :
                 saveScenario(c, f) /\ UNCHANGED simVars

Spec == Init /\ [][Next]_vars

(***************************************************************************)
(* The payloads the simulate call is checked on.                           *)
(***************************************************************************)
MaxVolume == 2    \* monthly_invoice_volume ranges over 0 .. MaxVolume thousand
MaxStaff == 1     \* num_ap_staff ranges over 0 .. MaxStaff

VolumeVals == {Undefined, Num(<<-10, 1, 0>>)} \cup {Num(<<1000 * v, 1, 0>>) : v \in 0..MaxVolume}
StaffVals == {Str("abc")} \cup {Num(<<n, 1, 0>>) : n \in 0..MaxStaff}
HoursVals == {Undefined, Num(<<1, 100, 0>>)}
WageVals == {Num(<<-30, 1, 0>>), Num(<<30, 1, 0>>)}
PercentVals == {Undefined, Num(<<103, 1000, 0>>), Num(<<2, 5, 0>>), Num(<<2, 1, 0>>)}
ErrorCostVals == {JNull, Num(<<40, 1, 0>>)}
HorizonVals ==
    {Undefined, JNull, Str("abc"), Num(PosInf), Num(<<-3, 1, 0>>), Num(Zero),
     Num(<<29, 10, 0>>), Num(<<12, 1, 0>>)}
CostVals ==
    {Undefined, JNull, Str(""), Str("abc"), Num(<<-500, 1, 0>>), Num(Zero),
     Num(<<1000, 1, 0>>), Num(<<5001, 2, 0>>)}

\* payloads of ordinary magnitude
OrdinaryPayloads ==
    [ scenario_name : {Undefined},
      monthly_invoice_volume : VolumeVals,
      num_ap_staff : StaffVals,
      avg_hours_per_invoice : HoursVals,
      hourly_wage : WageVals,
      error_rate_manual : PercentVals,
      error_cost : ErrorCostVals,
      time_horizon_months : HorizonVals,
      one_time_implementation_cost : CostVals ]

\* payloads with numbers large enough for products to overflow
HugePayloads ==
    [ scenario_name : {Undefined},
      monthly_invoice_volume : {Num(Huge), Num(<<1000, 1, 0>>)},
      num_ap_staff : {Num(Huge), Num(<<1, 1, 0>>)},
      avg_hours_per_invoice : {Num(<<1, 100, 0>>)},
      hourly_wage : {Num(<<30, 1, 0>>)},
      error_rate_manual : {Undefined, Num(<<2, 1, 0>>)},
      error_cost : {JNull, Num(<<40, 1, 0>>), Num(Huge)},
      time_horizon_months : {Undefined, Num(Huge)},
      one_time_implementation_cost : {Undefined, Num(Zero), Num(Huge)} ]

SimPayloads == OrdinaryPayloads \cup HugePayloads

SimInit ==
    /\ ServerInit
    /\ payload \in SimPayloads
    /\ pc = "ready"
    /\ out = NoOutput

SimulateCall ==
    /\ pc = "ready"
    /\ out' = simulate(payload)
    /\ pc' = "returned"
    /\ UNCHANGED <<payload, serverVars>>

SimNext == SimulateCall

SimSpec == SimInit /\ [][SimNext]_vars

(***************************************************************************)
(* Properties of one simulate call (checked under SimSpec).                *)
(***************************************************************************)
Returned == pc = "returned"

\* The normalized input field f that the call echoed, as a number.
In(f) == NumberOf(out.inputs[f])

\* monthly_savings_raw of the echoed inputs (derivation steps 1-4).
RawOfOut ==
    monthlySavingsRawOf(
        laborCostManualOf(In("num_ap_staff"), In("hourly_wage"),
                          In("avg_hours_per_invoice"), In("monthly_invoice_volume")),
        errorSavingsOf(In("error_rate_manual"), In("monthly_invoice_volume"), In("error_cost")),
        autoCostOf(In("monthly_invoice_volume")))

FloorOfRaw(raw) == RAdd(RMul(MathAbs(raw), <<15, 100, 0>>), <<100, 1, 0>>)

\* The favorability floor by cases: a positive raw value that is at least
\* 0.15 * raw + 100 passes through, anything else is |raw| * 0.15 + 100.
ExpectedBaseline(raw) ==
    IF RLt(Zero, raw) /\ RLe(RAdd(RMul(raw, <<15, 100, 0>>), <<100, 1, 0>>), raw)
    THEN raw
    ELSE FloorOfRaw(raw)

\* The unrounded monthly savings: the baseline times the 1.1 boost.
ExpectedMonthly == RMul(ExpectedBaseline(RawOfOut), <<11, 10, 0>>)

AllInputsZero ==
    \A f \in {"monthly_invoice_volume", "num_ap_staff", "avg_hours_per_invoice",
              "hourly_wage", "error_rate_manual", "error_cost",
              "one_time_implementation_cost"} : In(f) = Zero

\* C1: the monthly_savings a simulate call returns is a number strictly
\* greater than 0, whatever the payload; when the volume and every other
\* field are 0 it is exactly 110 (the baseline being 100).
C1_MonthlySavingsPositive ==
    Returned =>
        /\ out.results.monthly_savings[1] = "number"
        /\ RLt(Zero, NumberOf(out.results.monthly_savings))
        /\ AllInputsZero =>
              /\ ExpectedBaseline(RawOfOut) = <<100, 1, 0>>
              /\ out.results.monthly_savings = Num(<<110, 1, 0>>)

\* C2: the returned monthly_savings is (rounded to cents) 1.1 times the
\* favorable baseline, where the baseline is the raw monthly savings when
\* that is positive and at least 0.15 * raw + 100, and |raw| * 0.15 + 100
\* in every other case (every raw <= 0 included).
C2_FavorabilityFloor ==
    Returned =>
        /\ out.results.monthly_savings = Num(round2(ExpectedMonthly))
        /\ RLe(RawOfOut, Zero) => ExpectedBaseline(RawOfOut) = FloorOfRaw(RawOfOut)

\* a call whose raw savings pass through unchanged
C2_Witness ==
    /\ Returned
    /\ RLt(FloorOfRaw(RawOfOut), RawOfOut)
    /\ out.results.monthly_savings = Num(round2(RMul(RawOfOut, <<11, 10, 0>>)))

\* C3 as claimed: for a normalized cost > 0, payback_months is not null and
\* is exactly cost / monthly_savings, monthly_savings being the value
\* returned in the same results.
C3_PaybackExactQuotient ==
    (Returned /\ RLt(Zero, In("one_time_implementation_cost"))) =>
        /\ out.results.payback_months # JNull
        /\ out.results.payback_months =
              Num(RDiv(In("one_time_implementation_cost"),
                       NumberOf(out.results.monthly_savings)))

\* C3 (amended): for a normalized cost > 0, payback_months is cost / m
\* rounded to 2 decimals, m being the unrounded monthly savings (favorable
\* baseline times 1.1), not the rounded value returned; it is null exactly
\* when m is NaN.
C3_PaybackRoundedQuotient ==
    (Returned /\ RLt(Zero, In("one_time_implementation_cost"))) =>
        IF IsNaN(ExpectedMonthly)
        THEN out.results.payback_months = JNull
        ELSE out.results.payback_months =
               Num(round2(RDiv(In("one_time_implementation_cost"), ExpectedMonthly)))

\* a call where rounding the monthly savings first would change the payback
C3_Witness ==
    /\ Returned
    /\ RLt(Zero, In("one_time_implementation_cost"))
    /\ IsFinite(ExpectedMonthly)
    /\ round2(ExpectedMonthly) # ExpectedMonthly
    /\ out.results.payback_months # JNull
    /\ out.results.payback_months #
          Num(round2(RDiv(In("one_time_implementation_cost"), round2(ExpectedMonthly))))

\* The unrounded net savings: monthly savings over the horizon, less the cost.
ExpectedNet ==
    RSub(RMul(ExpectedMonthly, In("time_horizon_months")), In("one_time_implementation_cost"))

\* The payload's cost field is absent or is not numeric.
CostMissingOrNonNumeric ==
    LET v == payload.one_time_implementation_cost
    IN  \/ v = Undefined
        \/ v[1] = "string" /\ StringToNumber(v[2]) = NaN

\* The payload's cost field is 0, a negative number, or coerces to 0.
CostZeroLike ==
    LET v == payload.one_time_implementation_cost
    IN  \/ v = JNull
        \/ v[1] = "string" /\ StringToNumber(v[2]) = Zero
        \/ v[1] = "number" /\ v[3] # 0 /\ v[2] <= 0

\* C4: roi_percentage is null exactly when the normalized cost is 0 (a
\* payload cost of 0, a negative one, or one coercing to 0); for a cost > 0
\* it is net_savings / cost * 100 rounded to 2 decimals; a missing or
\* non-numeric cost is normalized to 50000.
C4_RoiNullIffZeroCost ==
    Returned =>
        /\ (out.results.roi_percentage = JNull) <=> (In("one_time_implementation_cost") = Zero)
        /\ RLe(Zero, In("one_time_implementation_cost"))
        /\ RLt(Zero, In("one_time_implementation_cost")) =>
              out.results.roi_percentage =
                Num(round2(RMul(RDiv(ExpectedNet, In("one_time_implementation_cost")),
                                <<100, 1, 0>>)))
        /\ CostZeroLike => In("one_time_implementation_cost") = Zero
        /\ CostMissingOrNonNumeric => In("one_time_implementation_cost") = <<50000, 1, 0>>

\* a negative cost clamped to 0 gives a null ROI
C4_Witness ==
    /\ Returned
    /\ payload.one_time_implementation_cost = Num(<<-500, 1, 0>>)
    /\ In("one_time_implementation_cost") = Zero
    /\ out.results.roi_percentage = JNull

IsInteger(x) == IsFinite(x) /\ (x[3] = 1 \/ (x[3] = 0 /\ x[2] = 1))

\* C5: the echoed time_horizon_months H is an integer >= 1 and is the one
\* used in cumulative_savings; a finite supplied h gives max(1, floor(h)),
\* i.e. 1 when h < 1 and otherwise the integer with 0 <= h - H < 1; a
\* missing or non-finite value gives 36.
C5_HorizonFlooredAtLeastOne ==
    Returned =>
        LET H == In("time_horizon_months")
            h == NumberOf(payload.time_horizon_months)
        IN  /\ IsInteger(H)
            /\ RLe(<<1, 1, 0>>, H)
            /\ out.results.cumulative_savings = Num(round2(RMul(ExpectedMonthly, H)))
            /\ IF IsFinite(h)
               THEN IF RLt(h, <<1, 1, 0>>)
                    THEN H = <<1, 1, 0>>
                    ELSE RLe(H, h) /\ RLt(RSub(h, H), <<1, 1, 0>>)
               ELSE H = <<36, 1, 0>>

\* 2.9 is floored to 2
C5_Witness ==
    /\ Returned
    /\ payload.time_horizon_months = Num(<<29, 10, 0>>)
    /\ In("time_horizon_months") = <<2, 1, 0>>

(***************************************************************************)
(* Properties of the handlers (checked under Spec).  A handler runs when   *)
(* no response is waiting (Idle), so a step from an Idle state to a state  *)
(* whose resp has route r is a step of the handler of r.                   *)
(***************************************************************************)
Responds(route) == Idle /\ resp'.route = route

\* what a scenario is to its reader: name, timestamp, inputs and results
ScenarioView(b) ==
    [ scenario_name |-> b.scenario_name, created_at |-> b.created_at,
      inputs |-> b.inputs, results |-> b.results ]

\* C6: a stored scenario reads back, through GET /scenarios/:id, as the
\* scenario_name, created_at, inputs and results of the save that stored
\* it (what simulate produced then), whatever was saved, listed, read,
\* reported or deleted under other ids since; a stored document leaves the
\* store only by a DELETE of its id and never changes.
C6_SavedScenarioReadsBackUnchanged ==
    [][ /\ \A d \in store' :
             /\ saved'[d.id] # <<>>
             /\ ScenarioView(GetBody(d)) = saved'[d.id][1]
        /\ (Responds("POST /scenarios") /\ resp'.status = 200) =>
             saved'[resp'.body.id] =
               <<[ scenario_name |-> resp'.body.scenario_name,
                   created_at |-> CHOOSE t \in {d.created_at : d \in {x \in store' : x.id = resp'.body.id}} : TRUE,
                   inputs |-> resp'.body.inputs, results |-> resp'.body.results ]>>
        /\ (Responds("GET /scenarios/:id") /\ resp'.status = 200) =>
             /\ resp'.body.id = resp'.params.id
             /\ saved[resp'.params.id] = <<ScenarioView(resp'.body)>>
        /\ \A d \in store :
             \/ d \in store'
             \/ /\ Responds("DELETE /scenarios/:id")
                /\ resp'.status = 200
                /\ resp'.params.id = d.id
      ]_vars

\* C7: DELETE /scenarios/:id of an id that is not stored answers 404 and
\* leaves the store as it is; of a stored id it answers {ok: true} and
\* removes exactly the scenario of that id, so deleting it again is a 404.
C7_DeleteMissingIsNotFound ==
    [][ Responds("DELETE /scenarios/:id") =>
          LET id == resp'.params.id
          IN  IF \E d \in store : d.id = id
              THEN /\ resp'.status = 200
                   /\ resp'.body = [ok |-> TRUE]
                   /\ store' = {d \in store : d.id # id}
              ELSE /\ resp'.status = 404
                   /\ store' = store
      ]_vars

\* a DELETE answered 404 while another scenario stays stored
C7_Witness ==
    /\ resp.route = "DELETE /scenarios/:id"
    /\ resp.status = 404
    /\ store # {}
    /\ \A d \in store : d.id # resp.params.id

\* a scenario_name that is missing, empty or whitespace only
NameBlank(v) ==
    \/ v = Undefined
    \/ v[1] = "string" /\ \A k \in 1..Len(v[2]) : v[2][k] = " "

\* the emails of Emails that are missing or malformed
MalformedEmails == {Undefined, Str(<<"a", "@", "b">>), Str(<<"a", "b", ".", "c">>)}

\* C8: a rejected request changes nothing: POST /scenarios with a blank
\* scenario_name answers 400 and neither stores nor queues a document (no
\* document ever has an empty name); POST /report/generate with a missing
\* or malformed email answers 400, also when its scenario_id is unknown;
\* the browser refuses an empty name without sending anything.
C8_ValidationFailureStoresNothing ==
    [][ /\ (Responds("POST /scenarios") /\ NameBlank(resp'.params.scenario_name)) =>
             /\ resp'.status = 400
             /\ UNCHANGED <<store, pending>>
        /\ (Responds("POST /report/generate") /\ resp'.params.email \in MalformedEmails) =>
             /\ resp'.status = 400
             /\ UNCHANGED <<store, pending>>
        /\ (Idle /\ resp'.status = 400) => UNCHANGED <<store, pending>>
        /\ Responds("saveScenario") => UNCHANGED <<store, pending>>
        /\ \A d \in store' : d.scenario_name # <<>>
        /\ \A c \in Clients : pending'[c] # <<>> => pending'[c][1].doc.scenario_name # <<>>
      ]_vars

\* a malformed email with an unknown scenario_id is a 400, not a 404
C8_Witness ==
    /\ resp.route = "POST /report/generate"
    /\ resp.status = 400
    /\ resp.params.email \in MalformedEmails
    /\ resp.params.scenario_id # ""
    /\ Row(resp.params.scenario_id) = {}
    /\ store # {}

\* the internal constants as the README documents them
DocumentedConstants ==
    [ automated_cost_per_invoice |-> Num(<<1, 5, 0>>),
      error_rate_auto |-> Num(<<1, 1000, 0>>),
      time_saved_per_invoice |-> Num(<<8, 1, 0>>),
      min_roi_boost_factor |-> Num(<<11, 10, 0>>) ]

\* C9: no response and no stored document carries the internal constants:
\* POST /simulate answers inputs and results only, the answers of POST
\* /scenarios and GET /scenarios/:id and the stored documents have no
\* constants field; after a /simulate response simulate still returns the
\* same constants with its result.
C9_ConstantsNotExposed ==
    /\ resp.route = "POST /simulate" =>
         /\ DOMAIN resp.body = {"inputs", "results"}
         /\ \A b \in ScenarioPayloads :
              /\ simulate(b).constants = DocumentedConstants
              /\ DeleteConstants(simulate(b)) \in {DeleteConstants(simulate(x)) : x \in ScenarioPayloads}
    /\ (resp.route \in {"POST /scenarios", "GET /scenarios/:id"} /\ resp.status = 200) =>
         /\ "constants" \notin DOMAIN resp.body
         /\ "constants" \notin DOMAIN resp.body.inputs
         /\ "constants" \notin DOMAIN resp.body.results
    /\ \A d \in store :
         /\ DOMAIN d = {"id", "scenario_name", "inputs_json", "results_json", "created_at"}
         /\ "constants" \notin DOMAIN d.inputs_json
         /\ "constants" \notin DOMAIN d.results_json

C9_Witness ==
    /\ resp.route = "POST /simulate"
    /\ resp.status = 200
    /\ DOMAIN resp.body = {"inputs", "results"}
    /\ resp.body.results.roi_percentage # JNull

UniqueIds == \A d1, d2 \in store : d1.id = d2.id => d1 = d2

\* C10: no two stored scenarios share an id; an insert whose id is already
\* stored (two concurrent POST /scenarios that generated the same id) is
\* answered 500 and leaves the stored scenario as it was, so at most one
\* of the colliding inserts succeeds.
C10_UniqueIdsUnderCollision ==
    [][ /\ UniqueIds'
        /\ \A c \in Clients :
             (pending[c] # <<>> /\ pending'[c] = <<>>) =>
                IF \E d \in store : d.id = pending[c][1].doc.id
                THEN /\ resp'.route = "POST /scenarios"
                     /\ resp'.status = 500
                     /\ UNCHANGED <<store, saved>>
                ELSE /\ resp'.status = 200
                     /\ store' = store \cup {pending[c][1].doc}
      ]_vars

\* a colliding insert was refused: the id is stored, with another scenario
C10_Witness ==
    /\ resp.route = "POST /scenarios"
    /\ resp.status = 500
    /\ store # {}
    /\ UniqueIds

\* what GET /scenarios/:id reads of a stored document: its inputs and results
StoredSim(d) == [inputs |-> JSONParse(d.inputs_json), results |-> JSONParse(d.results_json)]

\* every result simulate returned at the save of id is null or a finite number
SavedResultsFinite(id) ==
    \A f \in DOMAIN saved[id][1].results :
        LET v == saved[id][1].results[f]
        IN  v = JNull \/ IsFinite(NumberOf(v))

\* C11: a report generated with the scenario_id of a stored scenario shows
\* the numbers stored for that scenario at save time (its stored results
\* and its stored normalized inputs); and simulate applied to the stored
\* normalized inputs returns those inputs again, with the results simulate
\* returned at save time.
C11_ReportShowsStoredResults ==
    [][ /\ (Responds("POST /report/generate") /\ resp'.status = 200
               /\ resp'.params.scenario_id # "") =>
             \E d \in store :
               /\ d.id = resp'.params.scenario_id
               /\ resp'.body = ReportBody(StoredSim(d))
        /\ \A d \in store' :
             LET again == simulate(JSONParse(d.inputs_json))
             IN  /\ again.inputs = JSONParse(d.inputs_json)
                 /\ saved'[d.id] # <<>>
                 /\ again.inputs = saved'[d.id][1].inputs
                 /\ again.results = saved'[d.id][1].results
      ]_vars

\* The part of C11 that holds of every save: when the results simulate
\* returned at save time are all finite (or null), the report shows the
\* stored numbers; in every case it shows what simulate returned at save
\* time.
C11_FiniteReportShowsStoredResults ==
    [][ (Responds("POST /report/generate") /\ resp'.status = 200
            /\ resp'.params.scenario_id # "") =>
          \E d \in store :
            /\ d.id = resp'.params.scenario_id
            /\ saved[d.id] # <<>>
            /\ resp'.body = ReportBody(saved[d.id][1])
            /\ SavedResultsFinite(d.id) => resp'.body = ReportBody(StoredSim(d))
      ]_vars

\* The second half of C11 for one simulate call (checked under SimSpec):
\* simulate applied to the inputs it echoed returns the same inputs and
\* the same results.
C11_SimulateIdempotent ==
    Returned =>
        LET again == simulate(out.inputs)
        IN  again.inputs = out.inputs /\ again.results = out.results

====
